---- MODULE Spec2Model ----
(***************************************************************************)
(* Organization dashboard: the repository view (App.fetchData and the     *)
(* language aggregator), the provider client (fetchOrganizationRepos and   *)
(* its auxiliary fetches) and the admin view (AdminDashboard.fetchAllData  *)
(* and deletePullRequest), with the two localStorage cache slots.          *)
(*                                                                         *)
(* Five specifications share the variables:                                *)
(*   Spec      the two views and their caches (one view per behaviour; the *)
(*             views share no state: distinct storage keys, distinct       *)
(*             component state)                                            *)
(*   SpecRefresh  Spec without the closing of pull requests                *)
(*   SpecLogin the login dialog, and the admin view once it is rendered    *)
(*   SpecAgg   the aggregator applied to bounded repository lists          *)
(*   SpecRepos fetchOrganizationRepos with its concurrent auxiliary        *)
(*             fetches                                                     *)
(***************************************************************************)
EXTENDS Integers, Sequences, FiniteSets

VARIABLES
    view,                \* which component the behaviour follows: "main" | "admin"
    now,                 \* Date.now(), in ms
    storeOk,             \* FALSE when localStorage access throws
    mounted,             \* the mount effect (useEffect) has run
    nextDue,             \* due time of the next setInterval callback
    last,                \* the handler that ran in the last step (history)
    \* App and AdminLogin (the login dialog)
    isAdmin,             \* useState isAdmin (App)
    isOpen,              \* useState isOpen (AdminLogin)
    username,            \* useState username (AdminLogin)
    password,            \* useState password (AdminLogin)
    loginError,          \* useState error (AdminLogin)
    \* App (repository view)
    repoData,            \* localStorage 'repoData'
    lastFetchTime,       \* localStorage 'lastFetchTime'
    repositories,        \* useState repositories
    error,               \* useState error
    loading,             \* useState loading
    fetching,            \* fetchData calls suspended at await fetchOrganizationRepos
    \* AdminDashboard
    allPullRequestsData, \* localStorage 'allPullRequestsData'
    prLastFetchTime,     \* localStorage 'prLastFetchTime'
    pullRequests,        \* useState pullRequests
    adminRepositories,   \* useState repositories (AdminDashboard)
    adminError,          \* useState error (AdminDashboard)
    adminLoading,        \* useState loading (AdminDashboard)
    deletingPR,          \* useState deletingPR
    refreshes,           \* fetchAllData calls in flight
    closes,              \* deletePullRequest calls in flight
    prov,                \* provider: state of each pull request
    writer,              \* history: which call wrote the cached payload and timestamp
    firstClose,          \* history: outcome of the last successful close
    \* aggregator under test
    aggRepos,
    aggStats,
    aggDone,
    \* fetchOrganizationRepos under test
    orgPhase,
    orgListing,
    orgAux,
    orgOutcomes,         \* history: the outcome of every request of the call
    orgResult

appVars == <<repoData, lastFetchTime, repositories, error, loading, fetching>>
adminVars == <<allPullRequestsData, prLastFetchTime, pullRequests,
               adminRepositories, adminError, adminLoading, deletingPR,
               refreshes, closes, prov, writer, firstClose>>
envVars == <<view, now, storeOk, mounted, nextDue, last>>
loginVars == <<isAdmin, isOpen, username, password, loginError>>
aggVars == <<aggRepos, aggStats, aggDone>>
orgVars == <<orgPhase, orgListing, orgAux, orgOutcomes, orgResult>>
vars == <<envVars, loginVars, appVars, adminVars, aggVars, orgVars>>

(***************************************************************************)
(* Bounds                                                                  *)
(***************************************************************************)
MaxTicks == 6        \* clock steps of TickStep ms
MaxInFlight == 2     \* asynchronous calls (refreshes, closes) in flight per view
MaxAdminTicks == 1   \* clock steps while the admin view is followed
MaxAggRepos == 2     \* repositories in an aggregator input
MaxAggLangs == 2     \* languages per repository in an aggregator input

TickStep == 5 * 60 * 1000

(***************************************************************************)
(* JavaScript values                                                       *)
(***************************************************************************)
Undefined == [t |-> "undefined"]
Null == [t |-> "null"]
NoError == "null"
NaN == 0 - 1

Min(a, b) == IF a < b THEN a ELSE b

RECURSIVE SumFirst(_, _)
SumFirst(s, n) == IF n = 0 THEN 0 ELSE SumFirst(s, n - 1) + s[n]
SumSeq(s) == SumFirst(s, Len(s))

RECURSIVE Pow2(_)
Pow2(n) == IF n = 0 THEN 1 ELSE 2 * Pow2(n - 1)

(***************************************************************************)
(* Aggregator: App.languageStats (useMemo over repositories).              *)
(* A JavaScript object is a sequence of <<key, value>> pairs with unique   *)
(* keys, in insertion order (the order Object.entries yields).             *)
(***************************************************************************)
LangNames == {"A", "B", "Go"}
\* Byte counts of the provider are positive (a language with no bytes is not
\* listed).
ByteValues == {17, 23, 50}

HasKey(obj, k) == \E i \in 1..Len(obj) : obj[i][1] = k
KeyIndex(obj, k) == CHOOSE i \in 1..Len(obj) : obj[i][1] = k
GetOr(obj, k, dflt) == IF HasKey(obj, k) THEN obj[KeyIndex(obj, k)][2] ELSE dflt

Accumulate(stats, lang, value) ==
    IF HasKey(stats, lang)
    THEN [stats EXCEPT ![KeyIndex(stats, lang)] =
              <<lang, @[2] + value>>]
    ELSE Append(stats, <<lang, 0 + value>>)

\* Object.entries(repo.languages).forEach(...): the first n entries
RECURSIVE AccumulateEntries(_, _, _)
AccumulateEntries(stats, entries, n) ==
    IF n = 0 THEN stats
    ELSE Accumulate(AccumulateEntries(stats, entries, n - 1),
                    entries[n][1], entries[n][2])

\* repositories.forEach(...): the first n repositories
RECURSIVE AccumulateRepos(_, _, _)
AccumulateRepos(stats, repos, n) ==
    IF n = 0 THEN stats
    ELSE AccumulateEntries(AccumulateRepos(stats, repos, n - 1),
                           repos[n].languages, Len(repos[n].languages))

ObjectValues(obj) == [i \in 1..Len(obj) |-> obj[i][2]]

\* 2^n mod t, by repeated squaring
RECURSIVE Pow2Mod(_, _)
Pow2Mod(n, t) ==
    IF n = 0 THEN 1 % t
    ELSE LET h == Pow2Mod(n \div 2, t)
         IN  IF n % 2 = 0 THEN (h * h) % t ELSE (2 * ((h * h) % t)) % t

\* (2^n * v) mod t
ShiftMod(v, n, t) == ((v % t) * Pow2Mod(n, t)) % t

\* smallest s with v * 2^s >= t   (v/t lies in [2^-s, 2^(1-s)))
RECURSIVE BinadeShift(_, _)
BinadeShift(v, t) == IF v >= t THEN 0 ELSE 1 + BinadeShift(2 * v, t)

\* floor(log2 k), k >= 1
RECURSIVE FloorLog2(_)
FloorLog2(k) == IF k < 2 THEN 0 ELSE 1 + FloorLog2(k \div 2)

\* The double (value / total) * 100 lies strictly below the exact quotient
\* k + 1/2 (given 200 * value = (2k + 1) * total).  value / total is rounded
\* to 53 bits: with s = BinadeShift and r = value * 2^(52+s) mod total it is
\* rounded down by r / (total * 2^(52+s)) when 2r < total and up otherwise.
\* The product by 100 is exact before its own rounding, which returns to
\* k + 1/2 unless the deficit exceeds half an ulp of the product's binade f.
ProductBelowHalf(value, total, k) ==
    LET s == BinadeShift(value, total)
        r == ShiftMod(value, 52 + s, total)
        f == IF k = 0 THEN 0 - 2 ELSE FloorLog2(k)
    IN  /\ r # 0
        /\ 2 * r < total
        /\ 200 * r > total * Pow2(f + s)

\* Math.round(value * 100 / total) in exact arithmetic (ties upwards)
RoundExact(value, total) == (200 * value + total) \div (2 * total)

MathRoundPctNoScale(value, total) ==
    IF total = 0 THEN NaN ELSE (2 * value + total) \div (2 * total)

\* Math.round((value / total) * 100) in IEEE-754 double arithmetic, for
\* 0 <= value <= total.  Away from an exact tie the two roundings (relative
\* error 2^-52) cannot cross a half-integer, which is at least 1/(2 total)
\* away; at an exact tie the result depends on ProductBelowHalf.
MathRoundPct(value, total) ==
    IF total = 0 THEN NaN
    ELSE IF (200 * value) % total = 0 /\ ((200 * value) \div total) % 2 = 1
         THEN LET k == (100 * value) \div total
              IN  IF ProductBelowHalf(value, total, k) THEN k ELSE k + 1
         ELSE RoundExact(value, total)

Color(name) ==
    IF name = "TypeScript" THEN "#3178c6"
    ELSE IF name = "JavaScript" THEN "#f7df1e"
    ELSE IF name = "Python" THEN "#3776ab"
    ELSE IF name = "Java" THEN "#b07219"
    ELSE IF name = "Ruby" THEN "#701516"
    ELSE IF name = "Go" THEN "#00ADD8"
    ELSE "#6e7681"

LanguageStatsWithPlaceholder(repos) ==
    LET stats == AccumulateRepos(<< <<"Other", 0>> >>, repos, Len(repos))
        total == SumSeq(ObjectValues(stats))
    IN  [i \in 1..Len(stats) |->
            [name |-> stats[i][1],
             value |-> MathRoundPct(stats[i][2], total),
             color |-> Color(stats[i][1])]]

LanguageStats(repos) ==
    LET stats == AccumulateRepos(<<>>, repos, Len(repos))
        total == SumSeq(ObjectValues(stats))
    IN  [i \in 1..Len(stats) |->
            [name |-> stats[i][1],
             value |-> MathRoundPct(stats[i][2], total),
             color |-> Color(stats[i][1])]]

\* languageStats.slice(0, 2).map(l => l.name): the names of the summary's
\* 'Most Used' field
MostUsed(stats) == [i \in 1..Min(2, Len(stats)) |-> stats[i].name]

\* RepositoryCard.languageData: the same computation over one repository
LanguageData(languages) ==
    LET total == SumSeq(ObjectValues(languages))
    IN  [i \in 1..Len(languages) |->
            [name |-> languages[i][1],
             value |-> MathRoundPct(languages[i][2], total),
             color |-> Color(languages[i][1])]]

(***************************************************************************)
(* Provider client: utils/github.ts                                        *)
(***************************************************************************)
RepoNames == {"r1", "r2"}

\* what the provider holds for each repository
ProviderLanguages(name) ==
    IF name = "r1" THEN << <<"A", 100>> >> ELSE << <<"B", 100>> >>
ProviderCommit(name) == [t |-> "commit", sha |-> name]
ProviderReadme(name) ==
    IF name = "r1" THEN <<"l1", "l2", "l3", "l4", "l5">> ELSE <<"l1", "l2">>

Rejected == [t |-> "rejected"]
Pending == [t |-> "pending"]
Value(v) == [t |-> "value", v |-> v]

LanguagesOutcomes == {"ok", "nonok", "throw"}
CommitOutcomes == {"ok", "409", "404", "nonok", "empty", "throw"}
ReadmeOutcomes == {"ok", "nonok", "throw"}
ListingOutcomes == {"ok", "404", "403", "401", "other", "network"}

\* a fetchRepoLanguages without its try/catch
FetchRepoLanguagesRethrow(outcome, name) ==
    IF outcome = "ok" THEN Value(ProviderLanguages(name))
    ELSE IF outcome = "nonok" THEN Value(<<>>)
    ELSE Rejected

FetchRepoLanguages(outcome, name) ==
    IF outcome = "ok" THEN Value(ProviderLanguages(name))
    ELSE IF outcome = "nonok" THEN Value(<<>>)
    ELSE Value(<<>>)

FetchLastCommit(outcome, name) ==
    IF outcome = "ok" THEN Value(ProviderCommit(name))
    ELSE Value(Undefined)

\* content.split('\n').slice(0, 4).join('\n')
FirstLines(lines) == SubSeq(lines, 1, Min(4, Len(lines)))

FetchReadmeContent(outcome, name) ==
    IF outcome = "ok"
    THEN Value([t |-> "string", lines |-> FirstLines(ProviderReadme(name))])
    ELSE Value(Null)

ListingErrorMessage(outcome) ==
    IF outcome = "404" THEN "Organization not found"
    ELSE IF outcome = "403" THEN "GitHub API rate limit exceeded. Please try again later."
    ELSE IF outcome = "401" THEN "Invalid GitHub token. Please check your authentication settings."
    ELSE IF outcome = "other" THEN "Failed to fetch repositories"
    ELSE "Failed to fetch"

\* the record built at github.ts 65-73 (url, readmeUrl and description are
\* copied from the listing entry and play no part here)
RepoRecord(name, aux) ==
    [name |-> name,
     languages |-> aux.languages.v,
     lastCommit |-> aux.lastCommit.v,
     readmeContent |-> aux.readmeContent.v]

AuxSettled(aux) ==
    /\ aux.languages # Pending
    /\ aux.lastCommit # Pending
    /\ aux.readmeContent # Pending
AuxRejected(aux) ==
    \/ aux.languages = Rejected
    \/ aux.lastCommit = Rejected
    \/ aux.readmeContent = Rejected

\* a join that yields the records in the reverse of the listing order
JoinReposReversed(listing, auxOf) ==
    IF \E i \in 1..Len(listing) : AuxRejected(auxOf[listing[i]])
    THEN [t |-> "error", message |-> "Failed to fetch"]
    ELSE [t |-> "ok",
          repos |-> [i \in 1..Len(listing) |->
                       RepoRecord(listing[Len(listing) + 1 - i],
                                  auxOf[listing[Len(listing) + 1 - i]])]]

\* Promise.all over the repositories of the listing, each an inner
\* Promise.all over its three auxiliary fetches
JoinRepos(listing, auxOf) ==
    IF \E i \in 1..Len(listing) : AuxRejected(auxOf[listing[i]])
    THEN [t |-> "error", message |-> "Failed to fetch"]
    ELSE [t |-> "ok",
          repos |-> [i \in 1..Len(listing) |-> RepoRecord(listing[i], auxOf[listing[i]])]]

AuxOutcomeFns(listing) ==
    [{listing[i] : i \in 1..Len(listing)} ->
        [languages : LanguagesOutcomes, lastCommit : CommitOutcomes,
         readmeContent : ReadmeOutcomes]]

AuxResults(listing, outcomes) ==
    [n \in {listing[i] : i \in 1..Len(listing)} |->
        [languages |-> FetchRepoLanguages(outcomes[n].languages, n),
         lastCommit |-> FetchLastCommit(outcomes[n].lastCommit, n),
         readmeContent |-> FetchReadmeContent(outcomes[n].readmeContent, n)]]

\* fetchOrganizationRepos, from the outcome of every request it issues
FetchOrganizationRepos(outcome, listing, outcomes) ==
    IF outcome = "ok"
    THEN JoinRepos(listing, AuxResults(listing, outcomes))
    ELSE [t |-> "error", message |-> ListingErrorMessage(outcome)]

(***************************************************************************)
(* localStorage and JSON                                                   *)
(***************************************************************************)
Garbage == [t |-> "string", text |-> "garbage"]

\* a string is truthy unless empty; getItem yields null for a missing key
Truthy(item) == item # Null
IsValidJSON(item) == "json" \in DOMAIN item
JSONparse(item) == item.json

\* Date.now().toString() and Number(string)
NumberToString(n) == [t |-> "string", digits |-> n]
Number(item) == IF "digits" \in DOMAIN item THEN item.digits ELSE NaN

\* JSON.stringify omits a property whose value is undefined
StripUndefined(obj, key) ==
    IF key \in DOMAIN obj /\ obj[key] = Undefined
    THEN [k \in DOMAIN obj \ {key} |-> obj[k]]
    ELSE obj

JSONstringifyRepos(repos) ==
    [t |-> "string",
     json |-> [i \in 1..Len(repos) |-> StripUndefined(repos[i], "lastCommit")]]

\* a property read: undefined when the key is missing
Prop(obj, key) == IF key \in DOMAIN obj THEN obj[key] ELSE Undefined

\* what RepositoryCard receives for each repository
Rendered(repos) ==
    [i \in 1..Len(repos) |->
        [name |-> repos[i].name,
         languages |-> repos[i].languages,
         lastCommit |-> Prop(repos[i], "lastCommit"),
         readmeContent |-> repos[i].readmeContent]]

(***************************************************************************)
(* App: fetchData and the mount effect                                     *)
(***************************************************************************)
CACHE_DURATION == 25 * 60 * 1000
REFRESH_INTERVAL == 30 * 60 * 1000

MainListings == {<<>>, <<"r1">>}

CacheIsFreshInclusive(capturedAt, at, ttl) == at - capturedAt <= ttl

\* timeSinceLastFetch < CACHE_DURATION
CacheIsFresh(capturedAt, at, ttl) == at - capturedAt < ttl

\* history: the last refresh that returned has failed, and no refresh has
\* started or returned since
FailedAfter(op, arg) ==
    IF op \in {"load", "timer", "manual"} THEN arg \in {"nostore", "corrupt"}
    ELSE IF op = "fetchDone" THEN arg # "ok"
    ELSE IF op = "reposDone" /\ arg # "ok" THEN TRUE
    ELSE IF op = "pullsDone" THEN arg = "throw"
    ELSE IF op \in {"init", "reload"} THEN FALSE
    ELSE last.failed

Ev(op, arg) ==
    [op |-> op, arg |-> arg, overtook |-> "", failed |-> FailedAfter(op, arg)]

\* the synchronous part of fetchData, up to its return or its await
FetchData(op) ==
    /\ fetching < MaxInFlight
    /\ IF ~storeOk
       THEN \* localStorage.getItem throws; caught at line 51
            /\ error' = "The operation is insecure."
            /\ loading' = FALSE
            /\ last' = Ev(op, "nostore")
            /\ UNCHANGED <<repoData, lastFetchTime, repositories, fetching>>
       ELSE IF /\ Truthy(repoData) /\ Truthy(lastFetchTime)
               /\ CacheIsFresh(Number(lastFetchTime), now, CACHE_DURATION)
       THEN IF IsValidJSON(repoData)
            THEN /\ repositories' = JSONparse(repoData)
                 /\ error' = NoError
                 /\ loading' = FALSE
                 /\ last' = Ev(op, "hit")
                 /\ UNCHANGED <<repoData, lastFetchTime, fetching>>
            ELSE \* JSON.parse throws; caught at line 51
                 /\ error' = "Unexpected token in JSON"
                 /\ loading' = FALSE
                 /\ last' = Ev(op, "corrupt")
                 /\ UNCHANGED <<repoData, lastFetchTime, repositories, fetching>>
       ELSE /\ error' = NoError
            /\ fetching' = fetching + 1
            /\ last' = Ev(op, IF Truthy(repoData) /\ Truthy(lastFetchTime)
                              THEN "stale" ELSE "miss")
            /\ UNCHANGED <<repoData, lastFetchTime, repositories, loading>>

\* useEffect(() => { fetchData(); setInterval(fetchData, REFRESH_INTERVAL) }, [])
Mount ==
    /\ view = "main"
    /\ ~mounted
    /\ FetchData("load")
    /\ mounted' = TRUE
    /\ nextDue' = now + REFRESH_INTERVAL
    /\ UNCHANGED <<loginVars, view, now, storeOk, adminVars, aggVars, orgVars>>

TimerFire ==
    /\ view = "main"
    /\ mounted
    /\ now >= nextDue
    /\ FetchData("timer")
    /\ nextDue' = nextDue + REFRESH_INTERVAL
    /\ UNCHANGED <<loginVars, view, now, storeOk, mounted, adminVars, aggVars, orgVars>>

\* fetchData resumes after await fetchOrganizationRepos
FetchDataDone ==
    /\ view = "main"
    /\ fetching > 0
    /\ \E outcome \in ListingOutcomes, listing \in MainListings :
         \E outcomes \in AuxOutcomeFns(listing) :
           LET res == FetchOrganizationRepos(outcome, listing, outcomes)
           IN  IF res.t = "ok"
               THEN /\ repositories' = res.repos
                    /\ repoData' = JSONstringifyRepos(res.repos)
                    /\ lastFetchTime' = NumberToString(now)
                    /\ error' = error
                    /\ last' = Ev("fetchDone", "ok")
               ELSE /\ error' = res.message
                    /\ last' = Ev("fetchDone", outcome)
                    /\ UNCHANGED <<repositories, repoData, lastFetchTime>>
    /\ loading' = FALSE
    /\ fetching' = fetching - 1
    /\ UNCHANGED <<loginVars, view, now, storeOk, mounted, nextDue, adminVars, aggVars, orgVars>>

(***************************************************************************)
(* Environment                                                             *)
(***************************************************************************)
Tick ==
    /\ mounted
    /\ now < (IF view = "main" THEN MaxTicks ELSE MaxAdminTicks) * TickStep
    /\ now' = now + TickStep
    /\ last' = Ev("tick", "")
    /\ UNCHANGED <<loginVars, view, storeOk, mounted, nextDue, appVars, adminVars, aggVars, orgVars>>

\* the page is loaded again: component state is rebuilt, storage survives
Reload ==
    /\ view = "main"
    /\ mounted
    /\ mounted' = FALSE
    /\ repositories' = <<>>
    /\ error' = NoError
    /\ loading' = TRUE
    /\ fetching' = 0
    /\ last' = Ev("reload", "")
    /\ UNCHANGED <<loginVars, view, now, storeOk, nextDue, repoData, lastFetchTime,
                   adminVars, aggVars, orgVars>>

\* the stored payload is damaged outside the program
CorruptRepoData ==
    /\ view = "main"
    /\ mounted
    /\ Truthy(repoData)
    /\ repoData # Garbage
    /\ repoData' = Garbage
    /\ last' = Ev("corrupt", "")
    /\ UNCHANGED <<loginVars, view, now, storeOk, mounted, nextDue, lastFetchTime,
                   repositories, error, loading, fetching, adminVars, aggVars, orgVars>>

(***************************************************************************)
(* AdminDashboard                                                          *)
(***************************************************************************)
PR_CACHE_DURATION == 5 * 60 * 1000
PR_REFRESH_INTERVAL == 5 * 60 * 1000
NoPR == 0

\* two repositories; r1 has pull requests #1 and #2, r2 has none
AdminListings == {<<"r1", "r2">>}
PRNumbers(name) == IF name = "r1" THEN <<1, 2>> ELSE <<>>
PRIds == {<<"r1", 1>>, <<"r1", 2>>}
PullsOutcomes == {"ok", "nonok", "throw"}

RemoveAt(seq, i) == SubSeq(seq, 1, i - 1) \o SubSeq(seq, i + 1, Len(seq))

\* allPRs.flat(): the first n lists, concatenated
RECURSIVE FlatFirst(_, _)
FlatFirst(lists, n) == IF n = 0 THEN <<>> ELSE FlatFirst(lists, n - 1) \o lists[n]
Flat(lists) == FlatFirst(lists, Len(lists))

\* fetchRepositories: the objects of the listing
RepoObjects(listing) == [i \in 1..Len(listing) |-> [name |-> listing[i]]]

FetchPullRequestsForRepo(outcome, name, states) ==
    IF outcome = "ok"
    THEN Value([i \in 1..Len(PRNumbers(name)) |->
                   [number |-> PRNumbers(name)[i],
                    state |-> states[<<name, PRNumbers(name)[i]>>],
                    repository |-> [name |-> name]]])
    ELSE IF outcome = "nonok" THEN Value(<<>>)
    ELSE Rejected

\* JSON.stringify({ pullRequests, repositories }); every value is defined
JSONstringifyObject(obj) == [t |-> "string", json |-> obj]

\* { ...cachedData, pullRequests: updatedPRs }
SpreadWithPullRequests(cachedData, updatedPRs) ==
    [k \in DOMAIN cachedData \cup {"pullRequests"} |->
        IF k = "pullRequests" THEN updatedPRs ELSE cachedData[k]]

EmptyObject == [k \in {} |-> 0]

CloseIn(prs, prNumber, repoName) ==
    [i \in 1..Len(prs) |->
        IF prs[i].number = prNumber /\ prs[i].repository.name = repoName
        THEN [prs[i] EXCEPT !.state = "closed"]
        ELSE prs[i]]

\* a fetchAllData that cancels the calls still in flight
StartRefreshCancelling(inflight, call) == <<call>>

\* fetchAllData reaches await fetchRepositories(): nothing in flight is aborted
StartRefresh(inflight, call) == Append(inflight, call)

NoWriter == [payload |-> 0, ts |-> 0, trigger |-> ""]

\* history: calls are identified by the order in which they started, counted
\* among the calls in flight and the call whose data is in the cache
UsedIds(inflight, w) ==
    {inflight[i].id : i \in 1..Len(inflight)} \cup ({w.payload, w.ts} \ {0})
Rank(x, used) == IF x = 0 THEN 0 ELSE Cardinality({y \in used : y <= x})
FreshId(inflight, w) == Cardinality(UsedIds(inflight, w)) + 1
NormalRefreshes(inflight, w) ==
    [i \in 1..Len(inflight) |->
        [inflight[i] EXCEPT !.id = Rank(@, UsedIds(inflight, w))]]
NormalWriter(inflight, w) ==
    [w EXCEPT !.payload = Rank(@, UsedIds(inflight, w)),
              !.ts = Rank(@, UsedIds(inflight, w))]

\* a call in flight without its identity
Calls(inflight) ==
    [i \in 1..Len(inflight) |->
        [trigger |-> inflight[i].trigger, stage |-> inflight[i].stage,
         repos |-> inflight[i].repos]]

NoFirstClose == [valid |-> FALSE]

\* the synchronous part of fetchAllData, up to its return or its first await
FetchAllData(op) ==
    /\ Len(refreshes) + Len(closes) < MaxInFlight
    /\ IF ~storeOk
       THEN /\ adminError' = "The operation is insecure."
            /\ adminLoading' = FALSE
            /\ last' = Ev(op, "nostore")
            /\ UNCHANGED <<pullRequests, adminRepositories, refreshes, firstClose>>
       ELSE IF /\ Truthy(allPullRequestsData) /\ Truthy(prLastFetchTime)
               /\ CacheIsFresh(Number(prLastFetchTime), now, PR_CACHE_DURATION)
       THEN IF IsValidJSON(allPullRequestsData)
            THEN /\ pullRequests' = JSONparse(allPullRequestsData).pullRequests
                 /\ adminRepositories' = JSONparse(allPullRequestsData).repositories
                 /\ adminError' = NoError
                 /\ adminLoading' = FALSE
                 /\ last' = Ev(op, "hit")
                 /\ firstClose' = NoFirstClose
                 /\ UNCHANGED refreshes
            ELSE /\ adminError' = "Unexpected token in JSON"
                 /\ adminLoading' = FALSE
                 /\ last' = Ev(op, "corrupt")
                 /\ UNCHANGED <<pullRequests, adminRepositories, refreshes, firstClose>>
       ELSE /\ adminError' = NoError
            /\ refreshes' = StartRefresh(refreshes,
                   [id |-> FreshId(refreshes, writer), trigger |-> op, stage |-> "repos",
                    repos |-> <<>>])
            /\ last' = Ev(op, IF Truthy(allPullRequestsData) /\ Truthy(prLastFetchTime)
                              THEN "stale" ELSE "miss")
            /\ UNCHANGED <<pullRequests, adminRepositories, adminLoading, firstClose>>
    /\ UNCHANGED <<allPullRequestsData, prLastFetchTime, deletingPR, closes, prov, writer>>

\* useEffect(() => { fetchAllData(); setInterval(fetchAllData, 5 min) }, [])
AdminMount ==
    /\ view = "admin"
    /\ ~mounted
    /\ FetchAllData("load")
    /\ mounted' = TRUE
    /\ nextDue' = now + PR_REFRESH_INTERVAL
    /\ UNCHANGED <<loginVars, view, now, storeOk, appVars, aggVars, orgVars>>

AdminTimerFire ==
    /\ view = "admin"
    /\ mounted
    /\ now >= nextDue
    /\ FetchAllData("timer")
    /\ nextDue' = nextDue + PR_REFRESH_INTERVAL
    /\ UNCHANGED <<loginVars, view, now, storeOk, mounted, appVars, aggVars, orgVars>>

\* the Refresh button, rendered once loading is false
ManualRefresh ==
    /\ view = "admin"
    /\ mounted
    /\ ~adminLoading
    /\ FetchAllData("manual")
    /\ UNCHANGED <<loginVars, view, now, storeOk, mounted, nextDue, appVars, aggVars, orgVars>>

\* fetchAllData resumes after await fetchRepositories()
ReposDone ==
    /\ view = "admin"
    /\ \E i \in 1..Len(refreshes), outcome \in {"ok", "nonok", "network"},
          listing \in AdminListings :
         /\ refreshes[i].stage = "repos"
         /\ IF outcome = "ok"
            THEN /\ adminRepositories' = RepoObjects(listing)
                 /\ refreshes' = [refreshes EXCEPT ![i].stage = "prs",
                                                   ![i].repos = RepoObjects(listing)]
                 /\ UNCHANGED <<adminError, adminLoading, writer>>
            ELSE /\ adminError' = IF outcome = "nonok"
                                  THEN "Failed to fetch repositories"
                                  ELSE "Failed to fetch"
                 /\ adminLoading' = FALSE
                 /\ refreshes' = NormalRefreshes(RemoveAt(refreshes, i), writer)
                 /\ writer' = NormalWriter(RemoveAt(refreshes, i), writer)
                 /\ UNCHANGED adminRepositories
         /\ last' = Ev("reposDone", outcome)
    /\ UNCHANGED <<allPullRequestsData, prLastFetchTime, pullRequests, deletingPR,
                   closes, prov, firstClose>>
    /\ UNCHANGED <<loginVars, view, now, storeOk, mounted, nextDue, appVars, aggVars, orgVars>>

PullsArg(outcomes) ==
    IF \E n \in DOMAIN outcomes : outcomes[n] = "throw" THEN "throw"
    ELSE IF \E n \in DOMAIN outcomes : outcomes[n] = "nonok" THEN "nonok"
    ELSE "ok"

\* fetchAllData resumes after await Promise.all(repos.map(fetchPullRequestsForRepo))
PullsDone ==
    /\ view = "admin"
    /\ \E i \in 1..Len(refreshes) :
         /\ refreshes[i].stage = "prs"
         /\ LET repos == refreshes[i].repos
                rest == RemoveAt(refreshes, i)
            IN \E outcomes \in [{repos[j].name : j \in 1..Len(repos)} -> PullsOutcomes] :
                LET allPRs == [j \in 1..Len(repos) |->
                                 FetchPullRequestsForRepo(outcomes[repos[j].name],
                                                          repos[j].name, prov)]
                IN  IF \E j \in 1..Len(allPRs) : allPRs[j] = Rejected
                    THEN /\ adminError' = "Failed to fetch"
                         /\ refreshes' = NormalRefreshes(rest, writer)
                         /\ writer' = NormalWriter(rest, writer)
                         /\ last' = Ev("pullsDone", "throw")
                         /\ UNCHANGED <<pullRequests, allPullRequestsData,
                                        prLastFetchTime, firstClose>>
                    ELSE LET flattenedPRs == Flat([j \in 1..Len(allPRs) |-> allPRs[j].v])
                             w == [payload |-> refreshes[i].id,
                                   ts |-> refreshes[i].id,
                                   trigger |-> refreshes[i].trigger]
                         IN  /\ pullRequests' = flattenedPRs
                             /\ allPullRequestsData' = JSONstringifyObject(
                                    [pullRequests |-> flattenedPRs, repositories |-> repos])
                             /\ prLastFetchTime' = NumberToString(now)
                             /\ refreshes' = NormalRefreshes(rest, w)
                             /\ writer' = NormalWriter(rest, w)
                             /\ firstClose' = NoFirstClose
                             /\ last' = [op |-> "pullsDone",
                                         arg |-> PullsArg(outcomes),
                                         overtook |-> IF writer.ts > refreshes[i].id
                                                      THEN writer.trigger ELSE "",
                                         failed |-> FALSE]
                             /\ UNCHANGED adminError
    /\ adminLoading' = FALSE
    /\ UNCHANGED <<adminRepositories, deletingPR, closes, prov>>
    /\ UNCHANGED <<loginVars, view, now, storeOk, mounted, nextDue, appVars, aggVars, orgVars>>

\* the close button of an open pull request: deletePullRequest up to its await
ClickClose ==
    /\ view = "admin"
    /\ mounted
    /\ ~adminLoading
    /\ Len(refreshes) + Len(closes) < MaxInFlight
    /\ \E i \in 1..Len(pullRequests) :
         /\ pullRequests[i].state = "open"
         /\ deletingPR # pullRequests[i].number
         /\ deletingPR' = pullRequests[i].number
         /\ closes' = Append(closes,
                [prNumber |-> pullRequests[i].number,
                 repoName |-> pullRequests[i].repository.name,
                 pullRequests |-> pullRequests])
    /\ last' = Ev("click", "")
    /\ UNCHANGED <<allPullRequestsData, prLastFetchTime, pullRequests, adminRepositories,
                   adminError, adminLoading, refreshes, prov, writer, firstClose>>
    /\ UNCHANGED <<loginVars, view, now, storeOk, mounted, nextDue, appVars, aggVars, orgVars>>

\* deletePullRequest resumes after await fetch(PATCH)
CloseDone ==
    /\ view = "admin"
    /\ \E i \in 1..Len(closes), outcome \in {"ok", "nonok", "network"} :
         LET c == closes[i]
             updatedPRs == CloseIn(c.pullRequests, c.prNumber, c.repoName)
             item == IF Truthy(allPullRequestsData) THEN allPullRequestsData
                     ELSE JSONstringifyObject(EmptyObject)
             again == /\ firstClose.valid
                      /\ firstClose.prNumber = c.prNumber
                      /\ firstClose.repoName = c.repoName
         IN  /\ closes' = RemoveAt(closes, i)
             /\ IF outcome # "ok"
                THEN /\ adminError' = IF outcome = "nonok"
                                      THEN "Failed to delete pull request"
                                      ELSE "Failed to fetch"
                     /\ last' = Ev("closeDone", outcome)
                     /\ UNCHANGED <<pullRequests, allPullRequestsData, prov, writer, firstClose>>
                ELSE /\ prov' = [prov EXCEPT ![<<c.repoName, c.prNumber>>] = "closed"]
                     /\ pullRequests' = updatedPRs
                     /\ IF IsValidJSON(item)
                        THEN /\ allPullRequestsData' = JSONstringifyObject(
                                    SpreadWithPullRequests(JSONparse(item), updatedPRs))
                             /\ writer' = [writer EXCEPT !.payload = 0]
                             /\ UNCHANGED adminError
                        ELSE /\ adminError' = "Unexpected token in JSON"
                             /\ UNCHANGED <<allPullRequestsData, writer>>
                     /\ firstClose' = IF again THEN firstClose
                                      ELSE [valid |-> TRUE,
                                            prNumber |-> c.prNumber,
                                            repoName |-> c.repoName,
                                            pullRequests |-> pullRequests',
                                            payload |-> allPullRequestsData']
                     /\ last' = Ev("closeDone", IF again THEN "again" ELSE "ok")
    /\ deletingPR' = NoPR
    /\ UNCHANGED <<prLastFetchTime, adminRepositories, adminLoading, refreshes>>
    /\ UNCHANGED <<loginVars, view, now, storeOk, mounted, nextDue, appVars, aggVars, orgVars>>

CorruptPRData ==
    /\ view = "admin"
    /\ mounted
    /\ Truthy(allPullRequestsData)
    /\ allPullRequestsData # Garbage
    /\ allPullRequestsData' = Garbage
    /\ last' = Ev("corrupt", "")
    /\ firstClose' = NoFirstClose
    /\ writer' = [writer EXCEPT !.payload = 0]
    /\ UNCHANGED <<prLastFetchTime, pullRequests, adminRepositories, adminError,
                   adminLoading, deletingPR, refreshes, closes, prov>>
    /\ UNCHANGED <<loginVars, view, now, storeOk, mounted, nextDue, appVars, aggVars, orgVars>>

(***************************************************************************)
(* fetchOrganizationRepos, request by request                              *)
(***************************************************************************)
OrgListings == {<<>>, <<"r1">>, <<"r2">>, <<"r1", "r2">>, <<"r2", "r1">>}

AuxPending == [languages |-> Pending, lastCommit |-> Pending, readmeContent |-> Pending]
NoOutcomes ==
    [listing |-> "pending",
     aux |-> [n \in RepoNames |->
                [languages |-> "pending", lastCommit |-> "pending",
                 readmeContent |-> "pending"]]]
Listed(n) == \E i \in 1..Len(orgListing) : orgListing[i] = n

OrgStart ==
    /\ orgPhase = "idle"
    /\ orgPhase' = "listing"
    /\ UNCHANGED <<orgListing, orgAux, orgOutcomes, orgResult>>
    /\ UNCHANGED <<loginVars, envVars, appVars, adminVars, aggVars>>

\* the listing response arrives; on success every auxiliary fetch is issued
OrgListingDone ==
    /\ orgPhase = "listing"
    /\ \E outcome \in ListingOutcomes, listing \in OrgListings :
         /\ orgOutcomes' = [orgOutcomes EXCEPT !.listing = outcome]
         /\ IF outcome = "ok"
            THEN /\ orgListing' = listing
                 /\ orgPhase' = "aux"
                 /\ UNCHANGED orgResult
            ELSE /\ orgPhase' = "failed"
                 /\ orgResult' = FetchOrganizationRepos(outcome, listing, <<>>)
                 /\ UNCHANGED orgListing
    /\ UNCHANGED orgAux
    /\ UNCHANGED <<loginVars, envVars, appVars, adminVars, aggVars>>

OrgLanguagesDone ==
    /\ orgPhase = "aux"
    /\ \E n \in RepoNames, outcome \in LanguagesOutcomes :
         /\ Listed(n)
         /\ orgAux[n].languages = Pending
         /\ orgAux' = [orgAux EXCEPT ![n].languages = FetchRepoLanguages(outcome, n)]
         /\ orgOutcomes' = [orgOutcomes EXCEPT !.aux[n].languages = outcome]
    /\ UNCHANGED <<orgPhase, orgListing, orgResult>>
    /\ UNCHANGED <<loginVars, envVars, appVars, adminVars, aggVars>>

OrgCommitDone ==
    /\ orgPhase = "aux"
    /\ \E n \in RepoNames, outcome \in CommitOutcomes :
         /\ Listed(n)
         /\ orgAux[n].lastCommit = Pending
         /\ orgAux' = [orgAux EXCEPT ![n].lastCommit = FetchLastCommit(outcome, n)]
         /\ orgOutcomes' = [orgOutcomes EXCEPT !.aux[n].lastCommit = outcome]
    /\ UNCHANGED <<orgPhase, orgListing, orgResult>>
    /\ UNCHANGED <<loginVars, envVars, appVars, adminVars, aggVars>>

OrgReadmeDone ==
    /\ orgPhase = "aux"
    /\ \E n \in RepoNames, outcome \in ReadmeOutcomes :
         /\ Listed(n)
         /\ orgAux[n].readmeContent = Pending
         /\ orgAux' = [orgAux EXCEPT ![n].readmeContent = FetchReadmeContent(outcome, n)]
         /\ orgOutcomes' = [orgOutcomes EXCEPT !.aux[n].readmeContent = outcome]
    /\ UNCHANGED <<orgPhase, orgListing, orgResult>>
    /\ UNCHANGED <<loginVars, envVars, appVars, adminVars, aggVars>>

\* the outer Promise.all settles: every repository's fetches are done, or
\* one of them rejected
OrgJoin ==
    /\ orgPhase = "aux"
    /\ \/ \A n \in RepoNames : Listed(n) => AuxSettled(orgAux[n])
       \/ \E n \in RepoNames : Listed(n) /\ AuxRejected(orgAux[n])
    /\ orgResult' = JoinRepos(orgListing, orgAux)
    /\ orgPhase' = IF orgResult'.t = "ok" THEN "done" ELSE "failed"
    /\ UNCHANGED <<orgListing, orgAux, orgOutcomes>>
    /\ UNCHANGED <<loginVars, envVars, appVars, adminVars, aggVars>>

(***************************************************************************)
(* The aggregator applied to a repository list                            *)
(***************************************************************************)
\* language maps of k entries, one key order per key set
LangRank(name) == IF name = "A" THEN 1 ELSE IF name = "B" THEN 2 ELSE 3
LangMapsOfLen(k) ==
    {m \in [1..k -> LangNames \X ByteValues] :
        \A i, j \in 1..k : i < j => LangRank(m[i][1]) < LangRank(m[j][1])}
LangMaps == UNION {LangMapsOfLen(k) : k \in 0..MaxAggLangs}
AggInputs ==
    UNION {[1..k -> {[languages |-> m] : m \in LangMaps}] : k \in 0..MaxAggRepos}

\* useMemo(() => ..., [repositories])
AggRecompute ==
    /\ ~aggDone
    /\ aggStats' = LanguageStats(aggRepos)
    /\ aggDone' = TRUE
    /\ UNCHANGED aggRepos
    /\ UNCHANGED <<loginVars, envVars, appVars, adminVars, orgVars>>

(***************************************************************************)
(* AdminLogin (the login dialog) and App's switch to the admin view        *)
(***************************************************************************)
NoLoginError == ""
InvalidCredentials == "Invalid credentials"

\* what the user types into the two inputs
TypedUsernames == {"RDMadmin", "rdmadmin"}
TypedPasswords == {"Admin@12345", "RDMadmin"}

CredentialsMatchUsernameOnly(u, p) ==
    u = "RDMadmin"

\* username === 'RDMadmin' && password === 'Admin@12345'
CredentialsMatch(u, p) ==
    u = "RDMadmin" /\ p = "Admin@12345"

\* {isAdmin ? (<AdminDashboard />) : (<>...</>)}
RenderedView(admin) ==
    IF admin THEN "admin" ELSE "main"

\* the Admin Login button: onClick={() => setIsOpen(true)}
OpenLogin ==
    /\ ~isOpen
    /\ isOpen' = TRUE
    /\ last' = Ev("openLogin", "")
    /\ UNCHANGED <<isAdmin, username, password, loginError>>
    /\ UNCHANGED <<view, now, storeOk, mounted, nextDue, appVars, adminVars, aggVars, orgVars>>

\* the X button of the dialog: onClick={() => setIsOpen(false)}
DismissLogin ==
    /\ isOpen
    /\ isOpen' = FALSE
    /\ last' = Ev("dismissLogin", "")
    /\ UNCHANGED <<isAdmin, username, password, loginError>>
    /\ UNCHANGED <<view, now, storeOk, mounted, nextDue, appVars, adminVars, aggVars, orgVars>>

\* onChange={(e) => setUsername(e.target.value)}
TypeUsername ==
    /\ isOpen
    /\ \E u \in TypedUsernames : username' = u
    /\ last' = Ev("typeUsername", "")
    /\ UNCHANGED <<isAdmin, isOpen, password, loginError>>
    /\ UNCHANGED <<view, now, storeOk, mounted, nextDue, appVars, adminVars, aggVars, orgVars>>

\* onChange={(e) => setPassword(e.target.value)}
TypePassword ==
    /\ isOpen
    /\ \E p \in TypedPasswords : password' = p
    /\ last' = Ev("typePassword", "")
    /\ UNCHANGED <<isAdmin, isOpen, username, loginError>>
    /\ UNCHANGED <<view, now, storeOk, mounted, nextDue, appVars, adminVars, aggVars, orgVars>>

\* the Login button: handleLogin, with onLogin = () => setIsAdmin(true)
HandleLogin ==
    /\ isOpen
    /\ IF CredentialsMatch(username, password)
       THEN /\ isAdmin' = TRUE
            /\ isOpen' = FALSE
            /\ loginError' = NoLoginError
            /\ last' = Ev("login", "ok")
       ELSE /\ loginError' = InvalidCredentials
            /\ last' = Ev("login", "invalid")
            /\ UNCHANGED <<isAdmin, isOpen>>
    /\ view' = RenderedView(isAdmin')
    /\ UNCHANGED <<username, password>>
    /\ UNCHANGED <<now, storeOk, mounted, nextDue, appVars, adminVars, aggVars, orgVars>>

(***************************************************************************)
(* Specifications                                                          *)
(***************************************************************************)
EnvInit(v) ==
    /\ view = v
    /\ isAdmin = (v = "admin")
    /\ isOpen = FALSE
    /\ username = (IF v = "admin" THEN "RDMadmin" ELSE "")
    /\ password = (IF v = "admin" THEN "Admin@12345" ELSE "")
    /\ loginError = NoLoginError
    /\ now = 0
    /\ mounted = FALSE
    /\ nextDue = 0
    /\ last = Ev("init", "")

AppInit ==
    /\ repoData = Null
    /\ lastFetchTime = Null
    /\ repositories = <<>>
    /\ error = NoError
    /\ loading = TRUE
    /\ fetching = 0

AdminInit ==
    /\ allPullRequestsData = Null
    /\ prLastFetchTime = Null
    /\ pullRequests = <<>>
    /\ adminRepositories = <<>>
    /\ adminError = NoError
    /\ adminLoading = TRUE
    /\ deletingPR = NoPR
    /\ refreshes = <<>>
    /\ closes = <<>>
    /\ prov = [id \in PRIds |-> "open"]
    /\ writer = NoWriter
    /\ firstClose = NoFirstClose

AggIdle ==
    /\ aggRepos = <<>>
    /\ aggStats = <<>>
    /\ aggDone = FALSE

OrgIdle ==
    /\ orgPhase = "idle"
    /\ orgListing = <<>>
    /\ orgAux = [n \in RepoNames |-> AuxPending]
    /\ orgOutcomes = NoOutcomes
    /\ orgResult = [t |-> "none"]

Init ==
    /\ \E v \in {"main", "admin"} : EnvInit(v)
    /\ storeOk \in BOOLEAN
    /\ AppInit /\ AdminInit /\ AggIdle /\ OrgIdle

Next ==
    \/ Mount \/ TimerFire \/ FetchDataDone \/ Reload \/ CorruptRepoData
    \/ AdminMount \/ AdminTimerFire \/ ManualRefresh \/ ReposDone \/ PullsDone
    \/ ClickClose \/ CloseDone \/ CorruptPRData
    \/ Tick

Spec == Init /\ [][Next]_vars

\* the refresh cycle of both views: the user closes no pull request
NextRefresh ==
    \/ Mount \/ TimerFire \/ FetchDataDone \/ Reload \/ CorruptRepoData
    \/ AdminMount \/ AdminTimerFire \/ ManualRefresh \/ ReposDone \/ PullsDone
    \/ CorruptPRData
    \/ Tick

SpecRefresh == Init /\ [][NextRefresh]_vars

\* the login dialog of a freshly loaded page, then the admin view's first
\* refresh and the closing of pull requests
InitLogin ==
    /\ EnvInit("main")
    /\ storeOk \in BOOLEAN
    /\ AppInit /\ AdminInit /\ AggIdle /\ OrgIdle

NextLogin ==
    \/ OpenLogin \/ DismissLogin \/ TypeUsername \/ TypePassword \/ HandleLogin
    \/ AdminMount \/ ReposDone \/ PullsDone
    \/ ClickClose \/ CloseDone

SpecLogin == InitLogin /\ [][NextLogin]_vars

InitAgg ==
    /\ EnvInit("aggregator")
    /\ storeOk = TRUE
    /\ AppInit /\ AdminInit /\ OrgIdle
    /\ aggRepos \in AggInputs
    /\ aggStats = <<>>
    /\ aggDone = FALSE

NextAgg == AggRecompute

SpecAgg == InitAgg /\ [][NextAgg]_vars

InitRepos ==
    /\ EnvInit("client")
    /\ storeOk = TRUE
    /\ AppInit /\ AdminInit /\ AggIdle /\ OrgIdle

NextRepos ==
    \/ OrgStart \/ OrgListingDone \/ OrgLanguagesDone \/ OrgCommitDone
    \/ OrgReadmeDone \/ OrgJoin

SpecRepos == InitRepos /\ [][NextRepos]_vars

(***************************************************************************)
(* Properties                                                              *)
(***************************************************************************)
RefreshOps == {"load", "timer", "manual"}

\* C1: a refresh that finds a payload and a capture timestamp uses the cached
\* payload (no provider request, cache unchanged) exactly when
\* now - capturedAt < TTL, and otherwise (equality included) issues a
\* provider request; for the repository cache (25 min) and the pull-request
\* cache (5 min).
C1_FreshIffWithinTTL ==
    [][(last'.op \in RefreshOps /\ storeOk) =>
        /\ (view = "main" /\ Truthy(repoData) /\ Truthy(lastFetchTime)) =>
             IF now - Number(lastFetchTime) < 25 * 60 * 1000
             THEN /\ fetching' = fetching
                  /\ repoData' = repoData /\ lastFetchTime' = lastFetchTime
                  /\ IsValidJSON(repoData) => repositories' = JSONparse(repoData)
             ELSE fetching' = fetching + 1
        /\ (view = "admin" /\ Truthy(allPullRequestsData) /\ Truthy(prLastFetchTime)) =>
             IF now - Number(prLastFetchTime) < 5 * 60 * 1000
             THEN /\ refreshes' = refreshes
                  /\ allPullRequestsData' = allPullRequestsData
                  /\ prLastFetchTime' = prLastFetchTime
                  /\ IsValidJSON(allPullRequestsData) =>
                       /\ pullRequests' = JSONparse(allPullRequestsData).pullRequests
                       /\ adminRepositories' = JSONparse(allPullRequestsData).repositories
             ELSE Len(refreshes') = Len(refreshes) + 1
       ]_vars

\* a refresh found the repository cache entry aged exactly CACHE_DURATION
\* and went to the provider
C1_Witness ==
    /\ view = "main"
    /\ last.op \in RefreshOps /\ last.arg = "stale"
    /\ fetching > 0
    /\ now - Number(lastFetchTime) = CACHE_DURATION

\* C2: a refresh that loads a corrupted payload, or finds the store
\* unavailable, behaves as a cache miss whatever the capture timestamp: it
\* issues a provider request and surfaces no error.
C2_CorruptBehavesAsMiss ==
    [][(last'.op \in RefreshOps) =>
        /\ (view = "main" /\ (~storeOk \/ (Truthy(repoData) /\ ~IsValidJSON(repoData)))) =>
             (fetching' = fetching + 1 /\ error' = NoError)
        /\ (view = "admin" /\ (~storeOk \/ (Truthy(allPullRequestsData)
                                            /\ ~IsValidJSON(allPullRequestsData)))) =>
             (Len(refreshes') = Len(refreshes) + 1 /\ adminError' = NoError)
       ]_vars

\* C3: when listing the repositories fails the refresh is aborted: an error
\* message is set, the repository cache is unchanged and the previously
\* cached repository data is what is displayed, on a re-poll and on the
\* initial load alike.
C3_ListingFailureKeepsCachedDataShown ==
    [][(last'.op = "fetchDone" /\ last'.arg # "ok") =>
        /\ error' # NoError
        /\ repoData' = repoData /\ lastFetchTime' = lastFetchTime
        /\ (Truthy(repoData) /\ IsValidJSON(repoData)) =>
             Rendered(repositories') = Rendered(JSONparse(repoData))
       ]_vars

\* C4: in the admin view, when listing pull requests fails for any repository
\* (or listing the repositories fails) the refresh is aborted: an error
\* message is set, neither displayed list is replaced and the pull-request
\* cache is unchanged.
C4_PullListingFailureAborts ==
    [][(last'.op \in {"pullsDone", "reposDone"} /\ last'.arg # "ok") =>
        /\ adminError' # NoError
        /\ pullRequests' = pullRequests
        /\ adminRepositories' = adminRepositories
        /\ allPullRequestsData' = allPullRequestsData
        /\ prLastFetchTime' = prLastFetchTime
       ]_vars

\* C5: a failed auxiliary fetch (non-OK response or thrown error) yields an
\* empty language map, an absent commit or an absent README, and never makes
\* fetchOrganizationRepos fail or lose a repository of the listing.
C5_AuxFailuresDegrade ==
    /\ orgOutcomes.listing = "ok" => orgPhase # "failed"
    /\ orgPhase = "done" =>
         /\ orgResult.t = "ok"
         /\ Len(orgResult.repos) = Len(orgListing)
         /\ \A i \in 1..Len(orgListing) :
              LET n == orgListing[i]
                  r == orgResult.repos[i]
                  o == orgOutcomes.aux[n]
              IN  /\ r.name = n
                  /\ o.languages # "ok" => r.languages = <<>>
                  /\ o.lastCommit # "ok" => r.lastCommit = Undefined
                  /\ o.readmeContent # "ok" => r.readmeContent = Null

\* two repositories were listed, fetches of both failed in both ways, and the
\* call returned
C5_Witness ==
    /\ orgPhase = "done"
    /\ Len(orgListing) = 2
    /\ orgOutcomes.aux["r1"].languages = "throw"
    /\ orgOutcomes.aux["r1"].lastCommit = "nonok"
    /\ orgOutcomes.aux["r2"].readmeContent = "throw"
    /\ orgOutcomes.aux["r2"].languages = "ok"

\* the names occurring in a repository list, and the exact totals
NamesIn(repos) ==
    UNION {{repos[i].languages[j][1] : j \in 1..Len(repos[i].languages)} :
              i \in 1..Len(repos)}
LanguageTotal(repos, name) ==
    SumSeq([i \in 1..Len(repos) |-> GetOr(repos[i].languages, name, 0)])
GrandTotal(repos) ==
    SumSeq([i \in 1..Len(repos) |-> SumSeq(ObjectValues(repos[i].languages))])
SumOfShares(stats) == SumSeq([i \in 1..Len(stats) |-> stats[i].value])

RoundHalfUp(num, den) == (2 * num + den) \div (2 * den)
RoundHalfEven(num, den) ==
    IF (2 * num) % den = 0 /\ ((2 * num) \div den) % 2 = 1
    THEN 2 * ((num \div den + 1) \div 2)
    ELSE RoundHalfUp(num, den)
Abs(x) == IF x < 0 THEN 0 - x ELSE x

\* C6: for a positive grand total the aggregator returns exactly one entry
\* per distinct language name, whose share is
\* round(100 * languageTotal / grandTotal) (a tie rounded upwards or to even).
C6_SharesAreRoundedQuotients ==
    (aggDone /\ GrandTotal(aggRepos) > 0) =>
        /\ Len(aggStats) = Cardinality(NamesIn(aggRepos))
        /\ \A n \in NamesIn(aggRepos) : \E i \in 1..Len(aggStats) : aggStats[i].name = n
        /\ \A i \in 1..Len(aggStats) :
             LET lt == LanguageTotal(aggRepos, aggStats[i].name)
                 gt == GrandTotal(aggRepos)
             IN  aggStats[i].value \in {RoundHalfUp(100 * lt, gt), RoundHalfEven(100 * lt, gt)}

\* C7: when the grand total of byte-counts is zero the aggregator returns the
\* empty sequence (no entry, hence no undefined share); likewise the
\* per-repository breakdown of a repository without languages.
C7_ZeroTotalGivesEmpty ==
    (aggDone /\ GrandTotal(aggRepos) = 0) =>
        /\ aggStats = <<>>
        /\ \A i \in 1..Len(aggRepos) : LanguageData(aggRepos[i].languages) = <<>>

\* the aggregator ran on the empty repository set
C7_Witness == aggDone /\ aggRepos = <<>> /\ GrandTotal(aggRepos) = 0

\* C8: in a non-empty aggregation every share is an integer in 0..100 and the
\* shares sum to 100 within half the number of languages; for the single
\* repository {A: 50, B: 50} they sum to exactly 100.
C8_SharesSumToHundred ==
    (aggDone /\ aggStats # <<>>) =>
        /\ \A i \in 1..Len(aggStats) : aggStats[i].value \in 0..100
        /\ 2 * Abs(SumOfShares(aggStats) - 100) <= Len(aggStats)
        /\ aggRepos = <<[languages |-> << <<"A", 50>>, <<"B", 50>> >>]>> =>
             SumOfShares(aggStats) = 100

\* three languages were aggregated and independent rounding lost a point
C8_Witness ==
    /\ aggDone
    /\ Len(aggStats) = 3
    /\ SumOfShares(aggStats) = 99

\* C9: closing an already-closed pull request a second time leaves the
\* displayed pull-request list and the cached payload equal to what they were
\* after the first successful close (nothing else having written them since).
C9_SecondCloseChangesNothing ==
    [][(last'.op = "closeDone" /\ last'.arg = "again") =>
        /\ pullRequests' = firstClose.pullRequests
        /\ allPullRequestsData' = firstClose.payload
       ]_vars

\* C10: a refresh in flight is not aborted when another refresh starts, a
\* refresh that completes writes payload and timestamp together (the last
\* writer's data stands), and the cache never pairs the payload of one
\* refresh with the timestamp of another.
C10_NoCancellationLastWriteWins ==
    [][/\ last'.op \notin {"reposDone", "pullsDone"} =>
            /\ Len(refreshes') >= Len(refreshes)
            /\ \A i \in 1..Len(refreshes) : refreshes'[i] = refreshes[i]
       /\ (last'.op = "pullsDone" /\ last'.arg \in {"ok", "nonok"}) =>
            \E i \in 1..Len(refreshes) :
                /\ Calls(refreshes') = RemoveAt(Calls(refreshes), i)
                /\ writer'.trigger = refreshes[i].trigger
                /\ writer'.payload = writer'.ts /\ writer'.ts # 0
                /\ \A j \in 1..Len(refreshes') :
                      IF j < i THEN refreshes'[j].id < writer'.ts
                      ELSE refreshes'[j].id > writer'.ts
                /\ prLastFetchTime' = NumberToString(now)
                /\ IsValidJSON(allPullRequestsData')
                /\ JSONparse(allPullRequestsData').pullRequests = pullRequests'
                /\ JSONparse(allPullRequestsData').repositories = refreshes[i].repos
       /\ \A i, j \in 1..Len(refreshes') : i < j => refreshes'[i].id < refreshes'[j].id
       /\ writer'.payload # 0 => writer'.payload = writer'.ts
      ]_vars

\* a manual refresh started while a timer refresh was in flight and wrote the
\* cache first; the timer refresh then completed and wrote it last
C10_Witness ==
    /\ last.op = "pullsDone" /\ last.overtook = "manual"
    /\ writer.trigger = "timer"
    /\ writer.payload # 0 /\ writer.payload = writer.ts
    /\ refreshes = <<>>

\* C11: a cache payload is written only by a refresh whose provider fetch
\* returned, and every write of a payload comes with a write of the capture
\* timestamp taken at that moment (damage done to the store from outside is
\* not a write of the program).
C11_PayloadWrittenWithTimestamp ==
    [][/\ (repoData' # repoData /\ last'.op # "corrupt") =>
            /\ last'.op = "fetchDone" /\ last'.arg = "ok"
            /\ lastFetchTime' = NumberToString(now)
       /\ (allPullRequestsData' # allPullRequestsData /\ last'.op # "corrupt") =>
            /\ last'.op = "pullsDone" /\ last'.arg \in {"ok", "nonok"}
            /\ prLastFetchTime' = NumberToString(now)
      ]_vars

\* C12: fetchOrganizationRepos returns only once the three auxiliary fetches
\* of every listed repository are settled, and whatever the order in which
\* they settled the result has one record per listed repository, in listing
\* order, each carrying the languages, commit and README of that repository.
C12_JoinIsOrderIndependent ==
    orgPhase = "done" =>
        /\ \A i \in 1..Len(orgListing) : AuxSettled(orgAux[orgListing[i]])
        /\ orgResult.t = "ok"
        /\ Len(orgResult.repos) = Len(orgListing)
        /\ \A i \in 1..Len(orgListing) :
             LET n == orgListing[i]
                 r == orgResult.repos[i]
                 o == orgOutcomes.aux[n]
             IN  /\ r.name = n
                 /\ r.languages = IF o.languages = "ok" THEN ProviderLanguages(n) ELSE <<>>
                 /\ r.lastCommit = IF o.lastCommit = "ok" THEN ProviderCommit(n)
                                   ELSE Undefined
                 /\ r.readmeContent =
                      IF o.readmeContent = "ok"
                      THEN [t |-> "string", lines |-> FirstLines(ProviderReadme(n))]
                      ELSE Null

\* r2 was listed before r1, every auxiliary fetch succeeded and the call
\* returned
C12_Witness ==
    /\ orgPhase = "done"
    /\ orgListing = <<"r2", "r1">>
    /\ \A n \in RepoNames :
         /\ orgOutcomes.aux[n].languages = "ok"
         /\ orgOutcomes.aux[n].lastCommit = "ok"
         /\ orgOutcomes.aux[n].readmeContent = "ok"

\* C13: a provider request is issued only by the load, by a timer tick or by
\* a manual refresh (nothing is retried in between), and the timer tick that
\* follows a failed refresh does issue a provider request.
C13_NoRetryAndNextTickFetches ==
    [][/\ (fetching' > fetching \/ Len(refreshes') > Len(refreshes)) =>
            last'.op \in RefreshOps
       /\ (last'.op = "timer" /\ last.failed) =>
            \/ fetching' = fetching + 1
            \/ Len(refreshes') = Len(refreshes) + 1
      ]_vars

\* C14: a close that succeeds changes the displayed pull-request list and the
\* cached pull-request list, as they are when it completes, only by setting
\* the state of its own pull request to closed: what a refresh or another
\* close wrote while the request was in flight is kept.
C14_CloseKeepsOtherResults ==
    [][(last'.op = "closeDone" /\ last'.arg \in {"ok", "again"}) =>
        \E i \in 1..Len(closes) :
            /\ closes' = RemoveAt(closes, i)
            /\ pullRequests' =
                 CloseIn(pullRequests, closes[i].prNumber, closes[i].repoName)
            /\ (Truthy(allPullRequestsData) /\ IsValidJSON(allPullRequestsData)) =>
                 /\ IsValidJSON(allPullRequestsData')
                 /\ JSONparse(allPullRequestsData').pullRequests =
                      CloseIn(JSONparse(allPullRequestsData).pullRequests,
                              closes[i].prNumber, closes[i].repoName)
       ]_vars

\* C15: in the admin view deletingPR is null exactly when no close request is
\* in flight, the close button of every pull request with a close request in
\* flight is disabled (deletingPR is its number), and no pull request has two
\* close requests in flight.
C15_DeletingPRTracksCloses ==
    view = "admin" =>
        /\ (deletingPR = NoPR) <=> (closes = <<>>)
        /\ \A i \in 1..Len(closes) : deletingPR = closes[i].prNumber
        /\ \A i, j \in 1..Len(closes) :
             (i # j) => \/ closes[i].prNumber # closes[j].prNumber
                        \/ closes[i].repoName # closes[j].repoName

\* C16: the names shown as 'Most Used' (the first two entries of the
\* aggregator's output) are the two languages with the highest byte totals:
\* no language left out has a higher total than one that is shown.
C16_MostUsedAreLargest ==
    aggDone =>
        LET shown == {MostUsed(aggStats)[i] : i \in 1..Len(MostUsed(aggStats))}
        IN  \A n \in shown : \A m \in NamesIn(aggRepos) \ shown :
                LanguageTotal(aggRepos, n) >= LanguageTotal(aggRepos, m)

\* a step in which a refresh returned: by a cache hit or a failure before any
\* request, or when its provider requests completed or failed
RefreshReturned(ev) ==
    \/ ev.op \in RefreshOps /\ ev.arg \in {"hit", "nostore", "corrupt"}
    \/ ev.op = "fetchDone"
    \/ ev.op = "reposDone" /\ ev.arg # "ok"
    \/ ev.op = "pullsDone"
RefreshSucceeded(ev) ==
    \/ ev.op \in RefreshOps /\ ev.arg = "hit"
    \/ ev.op = "fetchDone" /\ ev.arg = "ok"
    \/ ev.op = "pullsDone" /\ ev.arg \in {"ok", "nonok"}

\* C17: every refresh that returns leaves loading false, loading never becomes
\* true again while the view stays mounted, and after a refresh that succeeded
\* or hit the cache, no other refresh being in flight, the error message is
\* null.
C17_LoadingEndsAndErrorCleared ==
    [][/\ RefreshReturned(last') =>
            IF view = "main" THEN ~loading' ELSE ~adminLoading'
       /\ last'.op # "reload" =>
            /\ ~loading => ~loading'
            /\ ~adminLoading => ~adminLoading'
       /\ (RefreshSucceeded(last') /\ fetching' = 0 /\ refreshes' = <<>>) =>
            IF view = "main" THEN error' = NoError ELSE adminError' = NoError
      ]_vars

\* C18: isAdmin is false on a freshly loaded page and becomes true only in a
\* login attempt made with the username 'RDMadmin' and the password
\* 'Admin@12345'; an attempt with any other pair sets the error 'Invalid
\* credentials' and leaves isAdmin as it was; and as long as isAdmin is false
\* the admin view is not mounted and no pull-request listing and no close
\* request has been issued.
C18_AdminOnlyThroughLogin ==
    /\ (last.op = "init" => ~isAdmin)
    /\ [][/\ (isAdmin' /\ ~isAdmin) =>
              /\ last'.op = "login"
              /\ username = "RDMadmin" /\ password = "Admin@12345"
          /\ (last'.op = "login" /\ ~(username = "RDMadmin" /\ password = "Admin@12345")) =>
              /\ loginError' = "Invalid credentials"
              /\ isAdmin' = isAdmin
          /\ last'.op \in RefreshOps \cup {"reposDone", "pullsDone", "click", "closeDone"} =>
              isAdmin
          /\ ~isAdmin' =>
              /\ view' = "main" /\ ~mounted'
              /\ refreshes' = <<>> /\ closes' = <<>>
              /\ writer' = NoWriter /\ prov' = [id \in PRIds |-> "open"]
         ]_vars

\* a login attempt with the configured pair succeeded, and the admin view
\* has since listed the pull requests and closed one
C18_Witness ==
    /\ isAdmin /\ view = "admin"
    /\ loginError = NoLoginError
    /\ username = "RDMadmin" /\ password = "Admin@12345"
    /\ last.op = "closeDone" /\ last.arg = "ok"
    /\ \E id \in PRIds : prov[id] = "closed"

====
